---- MODULE Spec2Model ----
(***************************************************************************)
(* SleepSenseV2 manual-entry screen (src/ManualEntry_Integrated.js).       *)
(*                                                                         *)
(* The file carries two variants of the same screen: the baseline          *)
(* (lines 1-238) and the enhanced one (lines 285-593).  The model covers   *)
(*   - the prediction client getPrediction (request derivation, failures), *)
(*   - the screen ManualEntry: form and loading state hooks, the render    *)
(*     that rebinds the handlers' closures, handleChange and saveData,     *)
(*   - the PickerButton control of the enhanced variant.                   *)
(*                                                                         *)
(* Text is modelled as a sequence of symbols.  A symbol is a single        *)
(* character where the character matters to parseInt / parseFloat          *)
(* (digits, ".", "-", "+", " ") and a whole word otherwise ("Male",        *)
(* "abc"): a word behaves as a run of characters that are neither digit,   *)
(* sign, point nor white space.                                            *)
(***************************************************************************)
EXTENDS Integers, Sequences, FiniteSets, TLC

VARIABLES
    variant,          \* "baseline" or "enhanced": which ManualEntry is mounted
    mounted,          \* the screen is on top of the navigation stack
    form,             \* useState form: the value last given to setForm
    loading,          \* useState loading: the value last given to setLoading
    renderedForm,     \* form as bound in the closures of the last render
    renderedLoading,  \* loading as bound in the last render (button disabled)
    store,            \* AsyncStorage item under the key "manualEntry"
    runs,             \* one record per activation of saveData
    nChanges,         \* number of handleChange calls so far (bounded)
    formData,         \* argument of a stand-alone getPrediction call
    sentBody,         \* body of the request that call handed to fetch
    savedItem,        \* JSON.stringify(form) of the same entry
    picker,           \* which PickerButton instance is followed
    showOptions,      \* useState showOptions: value last given to the setter
    renderedShow,     \* showOptions as bound in the picker's last render
    rows,             \* option rows of the picker's last render
    onSelectCalls,    \* the calls of onSelect: row pressed and value passed
    headerPresses,    \* number of activations of the picker's header
    twin              \* the enhanced screen run beside the baseline one

vars == << variant, mounted, form, loading, renderedForm, renderedLoading,
           store, runs, nChanges, formData, sentBody, savedItem,
           picker, showOptions, renderedShow, rows, onSelectCalls,
           headerPresses, twin >>

screenVars == << variant, mounted, form, loading, renderedForm,
                 renderedLoading, store, runs, nChanges >>
clientVars == << formData, sentBody, savedItem >>
pickerVars == << picker, showOptions, renderedShow, rows, onSelectCalls,
                 headerPresses >>

-----------------------------------------------------------------------------
(* Bounds *)

\* saveData activations followed in one behaviour
MaxRuns == 2

\* handleChange calls followed in one behaviour
MaxChanges == 3

\* onSelect calls recorded for one picker
MaxSelects == 2

\* header activations of one picker
MaxPresses == 3

-----------------------------------------------------------------------------
(* Text *)

Digits == {"0", "1", "2", "3", "4", "5", "6", "7", "8", "9"}

DigitValue(c) ==
    CASE c = "0" -> 0 [] c = "1" -> 1 [] c = "2" -> 2 [] c = "3" -> 3
      [] c = "4" -> 4 [] c = "5" -> 5 [] c = "6" -> 6 [] c = "7" -> 7
      [] c = "8" -> 8 [] c = "9" -> 9

Empty == << >>

\* s without its first n symbols
Drop(s, n) == SubSeq(s, n + 1, Len(s))

\* String.prototype.includes: needle occurs in text as a contiguous run
Includes(text, needle) ==
    \E i \in 0..(Len(text) - Len(needle)) :
        SubSeq(text, i + 1, i + Len(needle)) = needle

\* number of leading symbols of s that belong to set
PrefixLen(s, set) ==
    CHOOSE n \in 0..Len(s) :
        /\ \A i \in 1..n : s[i] \in set
        /\ (n < Len(s) => s[n + 1] \notin set)

RECURSIVE DigitsValue(_)
DigitsValue(ds) ==
    IF ds = << >> THEN 0
    ELSE 10 * DigitsValue(SubSeq(ds, 1, Len(ds) - 1)) + DigitValue(ds[Len(ds)])

RECURSIVE StripTrailingZeros(_)
StripTrailingZeros(ds) ==
    IF ds # << >> /\ ds[Len(ds)] = "0"
    THEN StripTrailingZeros(SubSeq(ds, 1, Len(ds) - 1))
    ELSE ds

-----------------------------------------------------------------------------
(* JavaScript values that reach JSON.stringify *)

NaN == [t |-> "NaN"]
Null == [t |-> "null"]
Undefined == [t |-> "undefined"]

\* the number (-1)^neg * m / 10^e, e minimal
Num(neg, m, e) == [t |-> "num", neg |-> neg, m |-> m, e |-> e]
Str(s) == [t |-> "str", s |-> s]

\* ToBoolean(v) = false
Falsy(v) ==
    \/ v.t \in {"NaN", "null", "undefined"}
    \/ v.t = "num" /\ v.m = 0
    \/ v.t = "str" /\ v.s = Empty

\* a || b
OrElse(a, b) == IF Falsy(a) THEN b ELSE a

\* sign and unsigned rest of a numeric literal, after leading white space
Signed(s) ==
    LET t == Drop(s, PrefixLen(s, {" "}))
    IN  IF t # << >> /\ t[1] \in {"-", "+"}
        THEN [neg |-> t[1] = "-", rest |-> Drop(t, 1)]
        ELSE [neg |-> FALSE, rest |-> t]

\* parseInt(s) with no radix, on text without a hexadecimal prefix
parseInt(s) ==
    LET sg == Signed(s)
        n == PrefixLen(sg.rest, Digits)
    IN  IF n = 0 THEN NaN
        ELSE Num(sg.neg, DigitsValue(SubSeq(sg.rest, 1, n)), 0)

\* parseFloat(s) on text without exponent part and without "Infinity"
parseFloat(s) ==
    LET sg == Signed(s)
        n == PrefixLen(sg.rest, Digits)
        ip == SubSeq(sg.rest, 1, n)
        after == Drop(sg.rest, n)
        hasPoint == after # << >> /\ after[1] = "."
        k == IF hasPoint THEN PrefixLen(Drop(after, 1), Digits) ELSE 0
        fp == IF hasPoint THEN StripTrailingZeros(SubSeq(after, 2, k + 1))
              ELSE << >>
    IN  IF n = 0 /\ k = 0 THEN NaN
        ELSE Num(sg.neg, DigitsValue(ip \o fp), Len(fp))

\* JSON.stringify of one member value: NaN becomes null, -0 becomes 0
JsonValue(v) ==
    CASE v.t = "NaN" -> Null
      [] v.t = "num" -> IF v.m = 0 THEN Num(FALSE, 0, 0) ELSE v
      [] OTHER -> v

-----------------------------------------------------------------------------
(* FormEntry *)

\* keys of the useState initialiser, in its order
FieldOrder ==
    << "gender", "age", "occupation", "sleepDuration", "sleepQuality",
       "physicalActivity", "stressLevel", "bmiCategory", "bloodPressure",
       "heartRate", "dailySteps", "sleepDisorder" >>

Fields == { FieldOrder[i] : i \in DOMAIN FieldOrder }

\* the form given to useState: every field the empty string
InitialForm == [k \in Fields |-> Empty]

\* { ...form, [key]: value }
Spread(f, key, value) == [f EXCEPT ![key] = value]

\* JSON.stringify(form) where every member is a string: the members in key
\* order, each a name with its encoded value
JSONstringifyForm(f) ==
    [i \in DOMAIN FieldOrder |-> << FieldOrder[i], Str(f[FieldOrder[i]]) >>]

-----------------------------------------------------------------------------
(* Prediction API client: the request body *)

\* mutant: the occupation is sent too
RequestBodyWithOccupation(fd) ==
    << << "age", JsonValue(parseInt(fd.age)) >>,
       << "gender", JsonValue(Str(fd.gender)) >>,
       << "daily_steps", JsonValue(OrElse(parseFloat(fd.dailySteps), Null)) >>,
       << "physical_activity_minutes",
          JsonValue(OrElse(parseFloat(fd.physicalActivity), Null)) >>,
       << "stress_level", JsonValue(OrElse(parseFloat(fd.stressLevel), Null)) >>,
       << "bmi_category", JsonValue(OrElse(Str(fd.bmiCategory), Null)) >>,
       << "occupation", JsonValue(Str(fd.occupation)) >> >>

\* body: JSON.stringify({...}) of the baseline getPrediction
RequestBodyBaseline(fd) ==
    << << "age", JsonValue(parseInt(fd.age)) >>,
       << "gender", JsonValue(Str(fd.gender)) >>,
       << "daily_steps", JsonValue(OrElse(parseFloat(fd.dailySteps), Null)) >>,
       << "physical_activity_minutes",
          JsonValue(OrElse(parseFloat(fd.physicalActivity), Null)) >>,
       << "stress_level", JsonValue(OrElse(parseFloat(fd.stressLevel), Null)) >>,
       << "bmi_category", JsonValue(OrElse(Str(fd.bmiCategory), Null)) >> >>

\* body: JSON.stringify({...}) of the enhanced getPrediction
RequestBodyEnhanced(fd) ==
    << << "age", JsonValue(parseInt(fd.age)) >>,
       << "gender", JsonValue(Str(fd.gender)) >>,
       << "daily_steps", JsonValue(OrElse(parseFloat(fd.dailySteps), Null)) >>,
       << "physical_activity_minutes",
          JsonValue(OrElse(parseFloat(fd.physicalActivity), Null)) >>,
       << "stress_level", JsonValue(OrElse(parseFloat(fd.stressLevel), Null)) >>,
       << "bmi_category", JsonValue(OrElse(Str(fd.bmiCategory), Null)) >> >>

RequestBody(v, fd) ==
    IF v = "baseline" THEN RequestBodyBaseline(fd) ELSE RequestBodyEnhanced(fd)

\* value of the member called name in a JSON object text
Member(body, name) ==
    LET i == CHOOSE j \in DOMAIN body : body[j][1] = name IN body[i][2]

Variants == {"baseline", "enhanced"}

-----------------------------------------------------------------------------
(* Inputs of the stand-alone client calls *)

Male == << "Male" >>
Normal == << "Normal" >>

\* texts typed into a numeric input
NumericInputs ==
    { Empty, << "0" >>, << "4", "2" >>, << "4", ".", "5", "0" >>,
      << "abc" >>, << " ", "-", "1", "2", "abc" >> }

AgeInputs == { Empty, << "2", "8" >>, << "abc" >> }

\* the fields getPrediction reads
Transmitted ==
    {"age", "gender", "dailySteps", "physicalActivity", "stressLevel",
     "bmiCategory"}

Untransmitted == Fields \ Transmitted

OtherInputs == { Empty, << "x" >> }

ClientForms ==
    { [k \in Fields |->
          CASE k = "age" -> a
            [] k = "gender" -> g
            [] k = "dailySteps" -> d
            [] k = "physicalActivity" -> p
            [] k = "stressLevel" -> s
            [] k = "bmiCategory" -> b
            [] OTHER -> o] :
        a \in AgeInputs, g \in {Empty, Male}, d \in NumericInputs,
        p \in NumericInputs, s \in NumericInputs, b \in {Empty, Normal},
        o \in OtherInputs }

\* the forms that agree with f on every transmitted field
SameTransmitted(f) ==
    { [k \in Fields |-> IF k \in Transmitted THEN f[k] ELSE u[k]] :
        u \in [Untransmitted -> OtherInputs] }

NoText == << >>

\* the state of a screen just mounted, as one record
InitialScreen ==
    [mounted |-> TRUE, form |-> InitialForm, loading |-> FALSE,
     renderedForm |-> InitialForm, renderedLoading |-> FALSE,
     store |-> NoText, runs |-> << >>]

ScreenIdle ==
    /\ twin = InitialScreen
    /\ mounted = TRUE
    /\ form = InitialForm
    /\ loading = FALSE
    /\ renderedForm = InitialForm
    /\ renderedLoading = FALSE
    /\ store = NoText
    /\ runs = << >>
    /\ nChanges = 0

PickerIdle ==
    /\ picker = "gender"
    /\ showOptions = FALSE
    /\ renderedShow = FALSE
    /\ rows = << >>
    /\ onSelectCalls = << >>
    /\ headerPresses = 0

ClientInit ==
    /\ variant \in Variants
    /\ ScreenIdle
    /\ PickerIdle
    /\ formData \in ClientForms
    /\ sentBody = NoText
    /\ savedItem = NoText

\* getPrediction(formData) up to the call of fetch
ClientGetPrediction ==
    /\ sentBody = NoText
    /\ sentBody' = RequestBody(variant, formData)
    /\ UNCHANGED << formData, savedItem >>
    /\ UNCHANGED screenVars
    /\ UNCHANGED pickerVars

\* JSON.stringify(form), the text saveData hands to AsyncStorage.setItem
ClientStringify ==
    /\ savedItem = NoText
    /\ savedItem' = JSONstringifyForm(formData)
    /\ UNCHANGED << formData, sentBody >>
    /\ UNCHANGED screenVars
    /\ UNCHANGED pickerVars

ClientNext ==
    \/ ClientGetPrediction /\ UNCHANGED twin
    \/ ClientStringify /\ UNCHANGED twin

SpecClient == ClientInit /\ [][ClientNext]_vars

-----------------------------------------------------------------------------
(* Failures and notices *)

RECURSIVE NumberText(_)
\* `${n}` of a non-negative integer
NumberText(n) ==
    LET d == << CHOOSE c \in Digits : DigitValue(c) = n % 10 >>
    IN  IF n < 10 THEN d ELSE NumberText(n \div 10) \o d

\* message of the TypeError a failed fetch rejects with
NetworkRequestFailed == << "Network", "request", "failed" >>

\* message of the SyntaxError response.json() rejects with
JsonParseError == << "JSON", "Parse", "error" >>

\* message of the error AsyncStorage.setItem rejects with
StorageError == << "Failed", "to", "write", "value" >>

\* message of the TypeError raised by undefined.join
NotAnObject == << "undefined", "is", "not", "an", "object" >>

\* what fetch settles with: a rejection, or a response with its status, its
\* body as text and its body as decoded JSON ("invalid" when undecodable)
Rejected(message) ==
    [t |-> "rejected", message |-> message, status |-> 0, text |-> Empty,
     json |-> "none", data |-> Undefined]

ErrorResponse(status, text) ==
    [t |-> "response", message |-> Empty, status |-> status, text |-> text,
     json |-> "none", data |-> Undefined]

UndecodableResponse ==
    [t |-> "response", message |-> Empty, status |-> 200, text |-> Empty,
     json |-> "invalid", data |-> Undefined]

DecodedResponse(data) ==
    [t |-> "response", message |-> Empty, status |-> 200, text |-> Empty,
     json |-> "decoded", data |-> data]

\* response.ok
Ok(res) == res.status >= 200 /\ res.status <= 299

\* a PredictionResponse as documented
GoodPrediction ==
    [t |-> "object",
     members |-> {"prediction", "confidence", "recommendations"},
     prediction |-> << "Good" >>,
     permille |-> 953,
     recommendations |-> << << "Take a walk" >>, << "Reduce stress" >> >>]

\* a JSON object that is no PredictionResponse, such as {"detail": ...}
ForeignObject ==
    [t |-> "object",
     members |-> {"detail"},
     prediction |-> Empty,
     permille |-> 0,
     recommendations |-> << >>]

ErrorBodies == { << "internal", "error" >>, NetworkRequestFailed }

ErrorStatuses == { 500 }

FetchOutcomes ==
    { Rejected(NetworkRequestFailed), UndecodableResponse,
      DecodedResponse(GoodPrediction), DecodedResponse(ForeignObject) }
    \cup { ErrorResponse(st, tx) : st \in ErrorStatuses, tx \in ErrorBodies }

\* getPrediction after fetch settled, baseline: the value it returns or the
\* message of the error it throws
GetPredictionBaseline(res) ==
    IF res.t = "rejected" THEN [threw |-> TRUE, message |-> res.message,
                                data |-> Undefined]
    ELSE IF ~Ok(res)
    THEN [threw |-> TRUE,
          message |-> << "Failed", "to", "get", "prediction" >>,
          data |-> Undefined]
    ELSE IF res.json = "invalid"
    THEN [threw |-> TRUE, message |-> JsonParseError, data |-> Undefined]
    ELSE [threw |-> FALSE, message |-> Empty, data |-> res.data]

\* getPrediction after fetch settled, enhanced
GetPredictionEnhanced(res) ==
    IF res.t = "rejected" THEN [threw |-> TRUE, message |-> res.message,
                                data |-> Undefined]
    ELSE IF ~Ok(res)
    THEN [threw |-> TRUE,
          message |-> << "Server", "error", ":" >> \o NumberText(res.status)
                          \o << "-" >> \o res.text,
          data |-> Undefined]
    ELSE IF res.json = "invalid"
    THEN [threw |-> TRUE, message |-> JsonParseError, data |-> Undefined]
    ELSE [threw |-> FALSE, message |-> Empty, data |-> res.data]

GetPredictionResult(v, res) ==
    IF v = "baseline" THEN GetPredictionBaseline(res)
    ELSE GetPredictionEnhanced(res)

Notice(kind, text) == [kind |-> kind, text |-> text]

ValidationNotice ==
    Notice("validation",
           << "Please", "fill", "in", "at", "least", "Age", "and", "Gender" >>)

ErrorGettingPrediction == << "Error", "getting", "prediction", "." >>

RemediationSteps ==
    << "1.", "Check", "if", "the", "Replit", "server", "is", "running",
       "2.", "Make", "sure", "the", "API_URL", "is", "correct",
       "3.", "Try", "updating", "the", "URL", "in", "the", "code" >>

\* the alert of the baseline catch block
CatchNoticeBaseline(message) ==
    Notice("failure",
           ErrorGettingPrediction
             \o << "Please", "check", "your", "internet", "connection",
                   "and", "try", "again", "." >>)

\* the alert of the enhanced catch block
CatchNoticeEnhanced(message) ==
    Notice("failure",
           ErrorGettingPrediction \o
             (IF Includes(message, NetworkRequestFailed)
              THEN << "Network", "error", ":", "Cannot", "reach", "the",
                      "server", ".", "Solutions", ":" >> \o RemediationSteps
              ELSE IF Includes(message, << "Server", "error" >>)
              THEN message
              ELSE << "Details", ":" >> \o message))

CatchNotice(v, message) ==
    IF v = "baseline" THEN CatchNoticeBaseline(message)
    ELSE CatchNoticeEnhanced(message)

RECURSIVE Join(_, _)
\* array.join(separator) of an array of texts
Join(array, separator) ==
    IF array = << >> THEN Empty
    ELSE IF Len(array) = 1 THEN array[1]
    ELSE array[1] \o separator \o Join(Tail(array), separator)

\* (confidence * 100).toFixed(1) for a confidence of permille thousandths
Percent(permille) ==
    NumberText(permille \div 10) \o << "." >> \o NumberText(permille % 10)

\* the alert of the success path
SuccessNotice(v, data) ==
    Notice("success",
           (IF v = "enhanced" THEN << "[check]" >> ELSE Empty)
             \o << "Sleep", "Quality", "Prediction", ":" >> \o data.prediction
             \o (IF v = "enhanced" THEN << "[chart]" >> ELSE Empty)
             \o << "Confidence", ":" >> \o Percent(data.permille) \o << "%" >>
             \o (IF v = "enhanced" THEN << "[bulb]" >> ELSE Empty)
             \o << "Recommendations", ":", "*" >>
             \o Join(data.recommendations, << "*" >>))

\* building the success text throws: recommendations has no join
ComposeThrows(data) == "recommendations" \notin data.members

-----------------------------------------------------------------------------
(* Form-entry screen *)

\* the text a user enters in each field
TypedValue ==
    [gender |-> Male, age |-> << "2", "8" >>, occupation |-> << "Engineer" >>,
     sleepDuration |-> << "7", ".", "5" >>, sleepQuality |-> << "8" >>,
     physicalActivity |-> << "3", "0" >>, stressLevel |-> << "6" >>,
     bmiCategory |-> Normal, bloodPressure |-> << "120/80" >>,
     heartRate |-> << "7", "0" >>, dailySteps |-> << "5", "0", "0", "0" >>,
     sleepDisorder |-> << "None" >>]

\* the fields whose controls are operated in the behaviours followed: the
\* two required ones (a text input and a selection), one free text that is
\* only stored and one optional number
EditedFields == {"age", "gender", "occupation", "dailySteps"}

\* the fields edited through a selection control
Selects == {"gender", "bmiCategory", "sleepDisorder"}

\* what the control bound to key can hand to handleChange: a text input can
\* be cleared, the native Picker has an item of value "", the options of a
\* PickerButton are all non-empty
InputValues(v, key) ==
    IF v = "enhanced" /\ key \in Selects THEN { TypedValue[key] }
    ELSE { Empty, TypedValue[key] }

NoOutcome ==
    [t |-> "none", message |-> Empty, status |-> 0, text |-> Empty,
     json |-> "none", data |-> Undefined]

\* mutant: the guard tests age only
GuardChecksAgeOnly(f) == f.age = Empty

\* if (!form.age || !form.gender)
GuardFails(f) == f.age = Empty \/ f.gender = Empty

\* a run stopped by the guard
RejectedRun(f) ==
    [form |-> f, pc |-> "done", item |-> NoText, written |-> "none",
     body |-> NoText, outcome |-> NoOutcome, effects |-> << "alert" >>,
     notices |-> << ValidationNotice >>]

\* a run suspended at await AsyncStorage.setItem("manualEntry", ...)
StartedRun(f) ==
    [form |-> f, pc |-> "writing", item |-> JSONstringifyForm(f),
     written |-> "pending", body |-> NoText, outcome |-> NoOutcome,
     effects |-> << "setItem" >>, notices |-> << >>]

\* mutant: the catch block shows no notice
CaughtSilently(v, run, message) == [run EXCEPT !.pc = "done"]

\* mutant: the catch block navigates back after its notice
CaughtThenGoBack(v, run, message) ==
    [run EXCEPT !.pc = "done",
                !.effects = @ \o << "alert", "goBack" >>,
                !.notices = Append(@, CatchNotice(v, message))]

\* the catch block of saveData
Caught(v, run, message) ==
    [run EXCEPT !.pc = "done",
                !.effects = @ \o << "alert" >>,
                !.notices = Append(@, CatchNotice(v, message))]

\* mutant: the request is derived from the latest form state
FetchingLatestForm(v, run) ==
    [run EXCEPT !.pc = "fetching", !.written = "ok",
                !.body = RequestBody(v, form),
                !.effects = Append(@, "fetch")]

\* the run after the write succeeded: getPrediction(form) up to await fetch
Fetching(v, run) ==
    [run EXCEPT !.pc = "fetching", !.written = "ok",
                !.body = RequestBody(v, run.form),
                !.effects = Append(@, "fetch")]

\* mutant: a failed write is ignored and the prediction is requested
WriteFailedThenFetch(v, run) ==
    [run EXCEPT !.pc = "fetching", !.written = "failed",
                !.body = RequestBody(v, run.form),
                !.effects = Append(@, "fetch")]

\* the run after the write failed
WriteFailed(v, run) ==
    Caught(v, [run EXCEPT !.written = "failed"], StorageError)

\* the run after fetch settled with res
Settled(v, run, res) ==
    LET got == GetPredictionResult(v, res)
        r == [run EXCEPT !.outcome = res]
    IN  IF got.threw THEN Caught(v, r, got.message)
        ELSE IF ComposeThrows(got.data) THEN Caught(v, r, NotAnObject)
        ELSE [r EXCEPT !.pc = "done",
                       !.effects = @ \o << "alert", "goBack" >>,
                       !.notices = Append(@, SuccessNotice(v, got.data))]

Navigated(run) == \E i \in DOMAIN run.effects : run.effects[i] = "goBack"

ScreenInit ==
    /\ variant \in Variants
    /\ ScreenIdle
    /\ PickerIdle
    /\ formData = InitialForm
    /\ sentBody = NoText
    /\ savedItem = NoText

\* React renders the component again: the handlers of the new render close
\* over the current state
Render ==
    /\ mounted
    /\ renderedForm # form \/ renderedLoading # loading
    /\ renderedForm' = form
    /\ renderedLoading' = loading
    /\ UNCHANGED << variant, mounted, form, loading, store, runs, nChanges >>
    /\ UNCHANGED clientVars
    /\ UNCHANGED pickerVars

\* handleChange(key, value): setForm({ ...form, [key]: value })
handleChange(key, value) ==
    /\ mounted
    /\ nChanges < MaxChanges
    /\ form' = Spread(renderedForm, key, value)
    /\ nChanges' = nChanges + 1
    /\ UNCHANGED << variant, mounted, loading, renderedForm, renderedLoading,
                    store, runs >>
    /\ UNCHANGED clientVars
    /\ UNCHANGED pickerVars

\* the save button is pressed: saveData runs up to its first await, or to
\* the return of the guard
saveData ==
    /\ mounted
    /\ ~renderedLoading
    /\ Len(runs) < MaxRuns
    /\ IF GuardFails(renderedForm)
       THEN /\ runs' = Append(runs, RejectedRun(renderedForm))
            /\ UNCHANGED loading
       ELSE /\ loading' = TRUE
            /\ runs' = Append(runs, StartedRun(renderedForm))
    /\ UNCHANGED << variant, mounted, form, renderedForm, renderedLoading,
                    store, nChanges >>
    /\ UNCHANGED clientVars
    /\ UNCHANGED pickerVars

\* AsyncStorage.setItem of run i resolves: the item is stored and saveData
\* goes on to getPrediction, which calls fetch
StorageResolves(i) ==
    /\ runs[i].pc = "writing"
    /\ store' = runs[i].item
    /\ runs' = [runs EXCEPT ![i] = Fetching(variant, runs[i])]
    /\ UNCHANGED << variant, mounted, form, loading, renderedForm,
                    renderedLoading, nChanges >>
    /\ UNCHANGED clientVars
    /\ UNCHANGED pickerVars

\* AsyncStorage.setItem of run i rejects: saveData goes to its catch block
StorageRejects(i) ==
    /\ runs[i].pc = "writing"
    /\ runs' = [runs EXCEPT ![i] = WriteFailed(variant, runs[i])]
    /\ loading' = FALSE
    /\ UNCHANGED << variant, mounted, form, renderedForm, renderedLoading,
                    store, nChanges >>
    /\ UNCHANGED clientVars
    /\ UNCHANGED pickerVars

\* mutant: a failed prediction removes the stored item
FetchSettlesRollsBack(i, res) ==
    /\ runs[i].pc = "fetching"
    /\ runs' = [runs EXCEPT ![i] = Settled(variant, runs[i], res)]
    /\ loading' = FALSE
    /\ mounted' = (mounted /\ ~Navigated(runs'[i]))
    /\ store' = IF Navigated(runs'[i]) THEN store ELSE NoText
    /\ UNCHANGED << variant, form, renderedForm, renderedLoading, nChanges >>
    /\ UNCHANGED clientVars
    /\ UNCHANGED pickerVars

\* fetch of run i settles with res: getPrediction returns or throws, and
\* saveData ends in its success path or in its catch block
FetchSettles(i, res) ==
    /\ runs[i].pc = "fetching"
    /\ runs' = [runs EXCEPT ![i] = Settled(variant, runs[i], res)]
    /\ loading' = FALSE
    /\ mounted' = (mounted /\ ~Navigated(runs'[i]))
    /\ UNCHANGED << variant, form, renderedForm, renderedLoading, store,
                    nChanges >>
    /\ UNCHANGED clientVars
    /\ UNCHANGED pickerVars

Next ==
    \/ Render /\ UNCHANGED twin
    \/ \E key \in EditedFields : \E value \in InputValues(variant, key) :
          handleChange(key, value) /\ UNCHANGED twin
    \/ saveData /\ UNCHANGED twin
    \/ \E i \in DOMAIN runs : StorageResolves(i) /\ UNCHANGED twin
    \/ \E i \in DOMAIN runs : StorageRejects(i) /\ UNCHANGED twin
    \/ \E i \in DOMAIN runs : \E res \in FetchOutcomes :
          FetchSettles(i, res) /\ UNCHANGED twin

Spec == ScreenInit /\ [][Next]_vars

-----------------------------------------------------------------------------
(* The two variants side by side: the baseline screen in the screen's
   variables, the enhanced screen in twin, both given the same inputs *)

\* the enhanced component renders again
EnhancedRender ==
    /\ twin.mounted
    /\ twin.renderedForm # twin.form \/ twin.renderedLoading # twin.loading
    /\ twin' = [twin EXCEPT !.renderedForm = twin.form,
                            !.renderedLoading = twin.loading]

\* handleChange(key, value) of the enhanced variant
EnhancedHandleChange(key, value) ==
    /\ twin.mounted
    /\ twin' = [twin EXCEPT !.form = Spread(twin.renderedForm, key, value)]

\* saveData of the enhanced variant up to its first await, or to the return
\* of the guard
EnhancedSaveData ==
    /\ twin.mounted
    /\ ~twin.renderedLoading
    /\ Len(twin.runs) < MaxRuns
    /\ twin' = IF GuardFails(twin.renderedForm)
               THEN [twin EXCEPT
                       !.runs = Append(@, RejectedRun(twin.renderedForm))]
               ELSE [twin EXCEPT
                       !.loading = TRUE,
                       !.runs = Append(@, StartedRun(twin.renderedForm))]

\* AsyncStorage.setItem of run i of the enhanced variant resolves
EnhancedStorageResolves(i) ==
    /\ i \in DOMAIN twin.runs
    /\ twin.runs[i].pc = "writing"
    /\ twin' = [twin EXCEPT !.store = twin.runs[i].item,
                            !.runs[i] = Fetching("enhanced", @)]

\* AsyncStorage.setItem of run i of the enhanced variant rejects
EnhancedStorageRejects(i) ==
    /\ i \in DOMAIN twin.runs
    /\ twin.runs[i].pc = "writing"
    /\ twin' = [twin EXCEPT !.runs[i] = WriteFailed("enhanced", @),
                            !.loading = FALSE]

\* fetch of run i of the enhanced variant settles with res
EnhancedFetchSettles(i, res) ==
    /\ i \in DOMAIN twin.runs
    /\ twin.runs[i].pc = "fetching"
    /\ LET run == Settled("enhanced", twin.runs[i], res)
       IN  twin' = [twin EXCEPT !.runs[i] = run,
                                !.loading = FALSE,
                                !.mounted = @ /\ ~Navigated(run)]

\* the field values both variants' controls deliver
SharedInputValues(key) ==
    InputValues("baseline", key) \cap InputValues("enhanced", key)

PairInit ==
    /\ variant = "baseline"
    /\ ScreenIdle
    /\ PickerIdle
    /\ formData = InitialForm
    /\ sentBody = NoText
    /\ savedItem = NoText

PairNext ==
    \/ Render /\ EnhancedRender
    \/ \E key \in EditedFields : \E value \in SharedInputValues(key) :
          handleChange(key, value) /\ EnhancedHandleChange(key, value)
    \/ saveData /\ EnhancedSaveData
    \/ \E i \in DOMAIN runs : StorageResolves(i) /\ EnhancedStorageResolves(i)
    \/ \E i \in DOMAIN runs : StorageRejects(i) /\ EnhancedStorageRejects(i)
    \/ \E i \in DOMAIN runs : \E res \in FetchOutcomes :
          FetchSettles(i, res) /\ EnhancedFetchSettles(i, res)

SpecPair == PairInit /\ [][PairNext]_vars

-----------------------------------------------------------------------------
(* Option-picker control of the enhanced variant *)

Option(label, value) == [label |-> label, value |-> value]

\* the options prop of the three PickerButton elements of the screen
PickerOptions(key) ==
    CASE key = "gender" ->
           << Option(<< "Male" >>, << "Male" >>),
              Option(<< "Female" >>, << "Female" >>) >>
      [] key = "bmiCategory" ->
           << Option(<< "Underweight" >>, << "Underweight" >>),
              Option(<< "Normal" >>, << "Normal" >>),
              Option(<< "Overweight" >>, << "Overweight" >>),
              Option(<< "Obese" >>, << "Obese" >>) >>
      [] key = "sleepDisorder" ->
           << Option(<< "None" >>, << "None" >>),
              Option(<< "Insomnia" >>, << "Insomnia" >>),
              Option(<< "Sleep", " ", "Apnea" >>, << "Sleep", " ", "Apnea" >>) >>

\* the label prop of the three PickerButton elements
PickerLabel(key) ==
    CASE key = "gender" -> << "Select", " ", "Gender" >>
      [] key = "bmiCategory" -> << "Select", " ", "Category" >>
      [] key = "sleepDisorder" -> << "Select", " ", "Option" >>

\* {value || label}: the text of the header
HeaderText(key) ==
    OrElse(Str(renderedForm[key]), Str(PickerLabel(key))).s

\* showOptions && options.map(...): one row per option, keyed by its value
\* and showing its label
Rows(show, options) ==
    IF show
    THEN [i \in DOMAIN options |->
             [key |-> options[i].value, text |-> options[i].label]]
    ELSE << >>

PickerInit ==
    /\ variant = "enhanced"
    /\ ScreenIdle
    /\ picker \in Selects
    /\ showOptions = FALSE
    /\ renderedShow = FALSE
    /\ rows = Rows(FALSE, PickerOptions(picker))
    /\ onSelectCalls = << >>
    /\ headerPresses = 0
    /\ formData = InitialForm
    /\ sentBody = NoText
    /\ savedItem = NoText

\* React renders the screen and the picker again
PickerRender ==
    /\ renderedShow # showOptions \/ renderedForm # form
    /\ renderedShow' = showOptions
    /\ renderedForm' = form
    /\ rows' = Rows(showOptions, PickerOptions(picker))
    /\ UNCHANGED << picker, showOptions, onSelectCalls, headerPresses >>
    /\ UNCHANGED << variant, mounted, form, loading, renderedLoading, store,
                    runs, nChanges >>
    /\ UNCHANGED clientVars

\* the header is pressed: setShowOptions(!showOptions)
PressHeader ==
    /\ headerPresses < MaxPresses
    /\ showOptions' = ~renderedShow
    /\ headerPresses' = headerPresses + 1
    /\ UNCHANGED << picker, renderedShow, rows, onSelectCalls >>
    /\ UNCHANGED screenVars
    /\ UNCHANGED clientVars

\* mutant: the list stays open after a selection
PressOptionStaysOpen(i) ==
    /\ i \in DOMAIN rows
    /\ Len(onSelectCalls) < MaxSelects
    /\ onSelectCalls' =
          Append(onSelectCalls, << i, PickerOptions(picker)[i].value >>)
    /\ form' = Spread(renderedForm, picker, PickerOptions(picker)[i].value)
    /\ UNCHANGED << picker, showOptions, renderedShow, rows, headerPresses >>
    /\ UNCHANGED << variant, mounted, loading, renderedForm, renderedLoading,
                    store, runs, nChanges >>
    /\ UNCHANGED clientVars

\* row i is pressed: onSelect(option.value), which the screen binds to
\* handleChange(key, value), then setShowOptions(false)
PressOption(i) ==
    /\ i \in DOMAIN rows
    /\ Len(onSelectCalls) < MaxSelects
    /\ onSelectCalls' =
          Append(onSelectCalls, << i, PickerOptions(picker)[i].value >>)
    /\ form' = Spread(renderedForm, picker, PickerOptions(picker)[i].value)
    /\ showOptions' = FALSE
    /\ UNCHANGED << picker, renderedShow, rows, headerPresses >>
    /\ UNCHANGED << variant, mounted, loading, renderedForm, renderedLoading,
                    store, runs, nChanges >>
    /\ UNCHANGED clientVars

PickerNext ==
    \/ PickerRender /\ UNCHANGED twin
    \/ PressHeader /\ UNCHANGED twin
    \/ \E i \in DOMAIN PickerOptions(picker) : PressOption(i) /\ UNCHANGED twin

SpecPicker == PickerInit /\ [][PickerNext]_vars

\* C9: the control starts Collapsed; while Expanded it shows one row per
\* option in the order supplied, while Collapsed none; an activation of the
\* header leaves it in the state opposite to the one displayed and invokes
\* nothing; a press on a row invokes onSelect once, with the value of the
\* option of that row, and leaves the control Collapsed; onSelect is invoked
\* only from a displayed row.
C9_PickerTogglesAndSelects ==
    /\ ~renderedShow
    /\ rows = << >>
    /\ [](/\ renderedShow =>
               /\ Len(rows) = Len(PickerOptions(picker))
               /\ \A i \in DOMAIN rows :
                     rows[i].text = PickerOptions(picker)[i].label
          /\ ~renderedShow => rows = << >>)
    /\ [][ /\ headerPresses' # headerPresses =>
                /\ showOptions' = ~renderedShow
                /\ onSelectCalls' = onSelectCalls
           /\ onSelectCalls' # onSelectCalls =>
                /\ renderedShow
                /\ \E i \in DOMAIN rows :
                      onSelectCalls' =
                          Append(onSelectCalls,
                                 << i, PickerOptions(picker)[i].value >>)
                /\ showOptions' = FALSE
                /\ headerPresses' = headerPresses
           /\ renderedShow' # renderedShow => renderedShow' = showOptions
         ]_vars

C9_Witness ==
    /\ picker = "bmiCategory"
    /\ Len(onSelectCalls) = 2
    /\ onSelectCalls[1] = << 4, << "Obese" >> >>
    /\ onSelectCalls[2][1] = 2
    /\ headerPresses = 2
    /\ ~renderedShow
    /\ HeaderText(picker) = << "Normal" >>

-----------------------------------------------------------------------------
(* Claims on the save workflow *)

\* how often effect e occurs in the effects of run
Count(run, e) == Cardinality({ i \in DOMAIN run.effects : run.effects[i] = e })

\* position of the first occurrence of effect e in the effects of run
First(run, e) ==
    CHOOSE i \in DOMAIN run.effects :
        /\ run.effects[i] = e
        /\ \A j \in 1..(i - 1) : run.effects[j] # e

PassedGuard(run) == run.form.age # Empty /\ run.form.gender # Empty

\* text is the twelve-member encoding of entry f
IsSnapshotOf(text, f) ==
    /\ Len(text) = 12
    /\ \A i \in 1..12 : text[i] = << FieldOrder[i], Str(f[FieldOrder[i]]) >>

\* the write or the prediction call of a finished run failed
CallFailed(run) ==
    \/ run.written = "failed"
    \/ run.outcome.t = "rejected"
    \/ run.outcome.t = "response"
         /\ (run.outcome.status < 200 \/ run.outcome.status > 299)
    \/ run.outcome.t = "response" /\ run.outcome.json = "invalid"

\* run i finishes in this step
Finishes(i) == runs[i].pc # "done" /\ runs'[i].pc = "done"

\* C1 as stated: every finished run of saveData on an entry with age and
\* gender performed exactly one persistence write and exactly one prediction
\* request, the write first.
C1_OneWriteOneRequest ==
    \A i \in DOMAIN runs :
        (runs[i].pc = "done" /\ PassedGuard(runs[i])) =>
            /\ Count(runs[i], "setItem") = 1
            /\ Count(runs[i], "fetch") = 1
            /\ First(runs[i], "setItem") < First(runs[i], "fetch")

\* C1 as amended: every run of saveData on an entry with age and gender
\* performs exactly one persistence write; it issues exactly one prediction
\* request, after the write, if that write succeeded, and none if the write
\* failed or is still outstanding.
C1_OneWriteThenRequestIfWritten ==
    \A i \in DOMAIN runs :
        PassedGuard(runs[i]) =>
            /\ Count(runs[i], "setItem") = 1
            /\ runs[i].written = "ok" =>
                  /\ Count(runs[i], "fetch") = 1
                  /\ First(runs[i], "setItem") < First(runs[i], "fetch")
            /\ runs[i].written # "ok" => Count(runs[i], "fetch") = 0

C1_Witness ==
    /\ \E i \in DOMAIN runs :
          /\ runs[i].pc = "done"
          /\ runs[i].written = "ok"
          /\ runs[i].effects[1] = "setItem"
          /\ runs[i].effects[2] = "fetch"
    /\ \E i \in DOMAIN runs :
          runs[i].pc = "done" /\ runs[i].written = "failed"

\* C2: a run of saveData on an entry whose age or gender is empty writes
\* nothing, requests nothing, shows "Please fill in at least Age and Gender"
\* and leaves the form, the loading flag, the stored item, the navigation and
\* the earlier runs as they were.
C2_GuardBlocksSave ==
    [][ (/\ Len(runs') = Len(runs) + 1
         /\ (renderedForm.age = Empty \/ renderedForm.gender = Empty))
        => /\ runs'[Len(runs')].form = renderedForm
           /\ runs'[Len(runs')].pc = "done"
           /\ runs'[Len(runs')].effects = << "alert" >>
           /\ runs'[Len(runs')].notices = << ValidationNotice >>
           /\ SubSeq(runs', 1, Len(runs)) = runs
           /\ form' = form
           /\ loading' = loading
           /\ renderedForm' = renderedForm
           /\ renderedLoading' = renderedLoading
           /\ store' = store
           /\ mounted' = mounted ]_vars

C2_Witness ==
    \E i \in DOMAIN runs :
        /\ runs[i].form.age # Empty
        /\ runs[i].form.gender = Empty
        /\ runs[i].effects = << "alert" >>
        /\ \E j \in DOMAIN runs : runs[j].form.age = Empty

\* C3: at most one prediction request is in flight in every reachable state.
C3_AtMostOneInFlight ==
    Cardinality({ i \in DOMAIN runs : runs[i].pc = "fetching" }) <= 1

\* the run ended with the success notice followed by navigation back
EndedInSuccess(run) ==
    /\ run.written = "ok"
    /\ run.outcome.json = "decoded"
    /\ run.effects = << "setItem", "fetch", "alert", "goBack" >>
    /\ Len(run.notices) = 1
    /\ run.notices[1].kind = "success"

\* run i did not navigate in this step and left screen and form as they were
StaysOnForm(i) ==
    /\ ~Navigated(runs'[i])
    /\ mounted' = mounted
    /\ form' = form
    /\ renderedForm' = renderedForm

\* C4 as stated: a run that passed the guard ends either with both calls
\* succeeded, the success notice and navigation back, or without navigation
\* and with the form untouched; and it ends the first way whenever the
\* prediction call returned a decoded response.
C4_NoPartialSuccess ==
    [][ \A i \in DOMAIN runs :
          Finishes(i) =>
            /\ EndedInSuccess(runs'[i]) \/ StaysOnForm(i)
            /\ runs'[i].outcome.json = "decoded" => EndedInSuccess(runs'[i])
      ]_vars

\* C4 as amended: as above, but the run ends with the success notice and
\* navigation back whenever the decoded response carries a recommendations
\* list; a decoded response without one ends in the failure notice, without
\* navigation.
C4_NoPartialSuccessGivenRecommendations ==
    [][ \A i \in DOMAIN runs :
          Finishes(i) =>
            /\ EndedInSuccess(runs'[i]) \/ StaysOnForm(i)
            /\ (/\ runs'[i].outcome.json = "decoded"
                /\ "recommendations" \in runs'[i].outcome.data.members)
                  => EndedInSuccess(runs'[i])
            /\ (/\ runs'[i].outcome.json = "decoded"
                /\ "recommendations" \notin runs'[i].outcome.data.members)
                  => /\ StaysOnForm(i)
                     /\ Len(runs'[i].notices) = 1
                     /\ runs'[i].notices[1].kind = "failure"
      ]_vars

C4_Witness ==
    /\ \E i \in DOMAIN runs : runs[i].pc = "done" /\ EndedInSuccess(runs[i])
    /\ \E i \in DOMAIN runs :
          /\ runs[i].pc = "done"
          /\ runs[i].outcome.json = "decoded"
          /\ ~Navigated(runs[i])

\* C5: when the persistence write or the prediction call of a run that
\* passed the guard fails, the step that completes it leaves loading false,
\* exactly one notice shown by the run, a failure notice, no navigation, and
\* the form as the user left it.
C5_FailureClearsLoadingOneNotice ==
    [][ \A i \in DOMAIN runs :
          (Finishes(i) /\ CallFailed(runs'[i])) =>
            /\ loading' = FALSE
            /\ Count(runs'[i], "alert") = 1
            /\ Len(runs'[i].notices) = 1
            /\ runs'[i].notices[1].kind = "failure"
            /\ StaysOnForm(i)
      ]_vars

C5_Witness ==
    /\ mounted
    /\ ~loading
    /\ form.age # Empty
    /\ \E i \in DOMAIN runs :
          /\ runs[i].pc = "done"
          /\ runs[i].outcome.t = "response"
          /\ runs[i].outcome.status = 500
    /\ \E i \in DOMAIN runs :
          runs[i].pc = "done" /\ runs[i].written = "failed"

\* C7: in the enhanced variant a non-success status is reported with its
\* status code and its body text, an unreachable network with the three
\* numbered remediation steps, any other failure under "Details:", and no
\* failure of one kind with the notice of another.
C7_NoticeMatchesFailureKind ==
    variant = "enhanced" =>
        \A i \in DOMAIN runs :
            (runs[i].pc = "done" /\ PassedGuard(runs[i])
               /\ ~EndedInSuccess(runs[i])) =>
                LET text == runs[i].notices[1].text
                    out == runs[i].outcome
                    network == out.t = "rejected"
                    server == out.t = "response" /\ ~Ok(out)
                IN  /\ network <=> Includes(text, RemediationSteps)
                    /\ server =>
                          /\ Includes(text, NumberText(out.status))
                          /\ Includes(text, out.text)
                    /\ (~network /\ ~server) <=>
                          Includes(text, << "Details", ":" >>)

\* C8: only a successful persistence write changes the stored item, every
\* such write replaces it by the twelve-field snapshot of its run, and the
\* outcome of the prediction call leaves it alone; so the item is the
\* snapshot of the latest run whose write succeeded.
C8_StoreIsLatestWrittenSnapshot ==
    [][ /\ \A i \in DOMAIN runs :
              (runs[i].pc = "writing" /\ runs'[i].written = "ok")
                  => IsSnapshotOf(store', runs[i].form)
        /\ (\A i \in DOMAIN runs :
              ~(runs[i].pc = "writing" /\ runs'[i].written = "ok"))
                  => store' = store
      ]_vars

C8_Witness ==
    \E i, j \in DOMAIN runs :
        /\ runs[i].written = "ok"
        /\ runs[i].pc = "done"
        /\ ~Navigated(runs[i])
        /\ runs[j].written = "ok"
        /\ runs[j].form # runs[i].form
        /\ IsSnapshotOf(store, runs[j].form)

\* C11: every field change sets one field and leaves the other eleven at
\* the values the form state held immediately before the change, also when
\* an earlier change has not been rendered yet.
C11_ChangeKeepsOtherFields ==
    [][ nChanges' = nChanges + 1 =>
          \E key \in Fields :
              \A k \in Fields \ {key} : form'[k] = form[k]
      ]_vars

\* C12: a run works on the form of the render in which save was activated:
\* the text handed to storage and the request body are both derived from
\* that form, the run keeps it whatever is changed while the write or the
\* request is outstanding, and what it stores is the snapshot of that form.
C12_RunUsesInvocationForm ==
    /\ [](\A i \in DOMAIN runs :
            /\ runs[i].item # NoText => IsSnapshotOf(runs[i].item, runs[i].form)
            /\ runs[i].body # NoText =>
                  runs[i].body = RequestBody(variant, runs[i].form))
    /\ [][ /\ Len(runs') = Len(runs) + 1 =>
                runs'[Len(runs')].form = renderedForm
           /\ \A i \in DOMAIN runs :
                /\ runs'[i].form = runs[i].form
                /\ (runs[i].pc = "writing" /\ runs'[i].written = "ok") =>
                      IsSnapshotOf(store', runs[i].form)
         ]_vars

C12_Witness ==
    \E i \in DOMAIN runs :
        /\ runs[i].pc = "done"
        /\ runs[i].written = "ok"
        /\ runs[i].body = RequestBody(variant, runs[i].form)
        /\ IsSnapshotOf(store, runs[i].form)
        /\ renderedForm # runs[i].form
        /\ runs[i].form.dailySteps # renderedForm.dailySteps
        /\ runs[i].form.occupation = renderedForm.occupation

\* number of occurrences of effect e over all runs
Total(e) ==
    Cardinality({ p \in (DOMAIN runs) \X (1..4) :
                    /\ p[2] \in DOMAIN runs[p[1]].effects
                    /\ runs[p[1]].effects[p[2]] = e })

\* C13: a run whose persistence write failed issues no prediction request
\* and ends in the failure path, with loading cleared by the failing step
\* and the failure notice shown; the prediction requests issued never
\* outnumber the persistence writes that succeeded.
C13_NoRequestAfterFailedWrite ==
    /\ [](/\ \A i \in DOMAIN runs :
                runs[i].written = "failed" =>
                    /\ runs[i].pc = "done"
                    /\ runs[i].effects = << "setItem", "alert" >>
                    /\ Len(runs[i].notices) = 1
                    /\ runs[i].notices[1].kind = "failure"
          /\ Total("fetch") <=
                Cardinality({ i \in DOMAIN runs : runs[i].written = "ok" }))
    /\ [][ \A i \in DOMAIN runs :
              (runs[i].written # "failed" /\ runs'[i].written = "failed")
                  => loading' = FALSE
         ]_vars

C13_Witness ==
    /\ ~loading
    /\ \E i \in DOMAIN runs :
          /\ runs[i].written = "failed"
          /\ runs[i].body = NoText
          /\ Count(runs[i], "fetch") = 0
    /\ \E i \in DOMAIN runs : runs[i].written = "ok"
    /\ Total("fetch") = 1

\* the kinds of the notices of a run, in order
Kinds(run) == [n \in DOMAIN run.notices |-> run.notices[n].kind]

\* run a of one variant and run b of the other did the same but for the text
\* of their notices
SameButNoticeText(a, b) ==
    /\ a.form = b.form
    /\ a.pc = b.pc
    /\ a.item = b.item
    /\ a.written = b.written
    /\ a.body = b.body
    /\ a.outcome = b.outcome
    /\ a.effects = b.effects
    /\ Kinds(a) = Kinds(b)

\* C14: run side by side on the same field values, save activations and
\* outcomes of the storage write and of the network call, the baseline and
\* the enhanced variant are in the same form state, have the same loading
\* flag, the same stored item and the same mounted state at every step, and
\* each of their runs
\* wrote the same item, sent the same request body, is at the same point and
\* performed the same writes, requests, notices and navigations in the same
\* order; only the text of the notices may differ.
C14_VariantsAgree ==
    /\ twin.mounted = mounted
    /\ twin.form = form
    /\ twin.renderedForm = renderedForm
    /\ twin.loading = loading
    /\ twin.renderedLoading = renderedLoading
    /\ twin.store = store
    /\ Len(twin.runs) = Len(runs)
    /\ \A i \in DOMAIN runs : SameButNoticeText(runs[i], twin.runs[i])

C14_Witness ==
    /\ variant = "baseline"
    /\ ~mounted /\ ~twin.mounted
    /\ \E i, j \in DOMAIN runs :
         /\ runs[i].pc = "done" /\ ~Navigated(runs[i])
         /\ runs[i].body # NoText /\ twin.runs[i].body = runs[i].body
         /\ twin.runs[i].notices # runs[i].notices
         /\ runs[j].pc = "done" /\ Navigated(runs[j])
         /\ Navigated(twin.runs[j])
         /\ twin.runs[j].notices # runs[j].notices
         /\ twin.store = runs[j].item

-----------------------------------------------------------------------------
(* Claims on the request derivation *)

\* source field of each optional numeric member
NumericSource ==
    [daily_steps |-> "dailySteps",
     physical_activity_minutes |-> "physicalActivity",
     stress_level |-> "stressLevel"]

\* C6: in the request built by getPrediction, each of daily_steps,
\* physical_activity_minutes and stress_level is null if and only if its
\* source text is empty or fails numeric parsing, every text that parses to a
\* number (including "0") is sent as that number, and bmi_category is null if
\* and only if bmiCategory is empty.
C6_AbsentIffEmptyOrUnparsable ==
    sentBody # NoText =>
        /\ \A m \in DOMAIN NumericSource :
              LET src == formData[NumericSource[m]]
                  sent == Member(sentBody, m)
              IN  /\ (sent.t = "null") <=>
                        (src = Empty \/ parseFloat(src).t = "NaN")
                  /\ parseFloat(src).t = "num" =>
                        sent = JsonValue(parseFloat(src))
        /\ (Member(sentBody, "bmi_category").t = "null") <=>
              (formData.bmiCategory = Empty)

\* C10: two entries that agree on the six transmitted fields yield the same
\* request body, whatever occupation, sleepDuration, sleepQuality,
\* bloodPressure, heartRate and sleepDisorder hold, while the stored text
\* carries all twelve fields with the values of the entry.
C10_UntransmittedNeverSent ==
    /\ sentBody # NoText =>
          \A f2 \in SameTransmitted(formData) :
              RequestBody(variant, f2) = sentBody
    /\ savedItem # NoText =>
          /\ Len(savedItem) = 12
          /\ \A k \in Fields :
                \E i \in DOMAIN savedItem :
                    savedItem[i] = << k, Str(formData[k]) >>

C10_Witness ==
    /\ sentBody # NoText
    /\ savedItem # NoText
    /\ \A k \in Untransmitted : formData[k] # Empty
    /\ \A k \in Transmitted : formData[k] # Empty

====
